---- MODULE Spec2Model ----
(***************************************************************************)
(* A model of gpytorch/priors/normal_prior.py: the NormalPrior class.      *)
(*                                                                         *)
(* One NormalPrior(loc, scale, log_transform, size) call is followed over  *)
(* its whole life: the constructor, later calls of                          *)
(* _initialize_distributions and is_in_support, and the caller writing     *)
(* into the tensors it passed in.                                          *)
(*                                                                         *)
(* Tensors are contiguous: a tensor is a shape and a storage holding its   *)
(* elements in row-major order.  Storages live in `heap`, so that two      *)
(* tensors over one storage (a view, an alias) see each other's writes.    *)
(* Numbers are integers; the code branches on a number only through the    *)
(* sign of a scale entry and the truth value of size.                      *)
(***************************************************************************)
EXTENDS Integers, Sequences, FiniteSets

VARIABLES
    pc,              \* "pending": the call is about to run; "constructed"; "raised"
    error,           \* the exception that left __init__, NoError when none
    arg_loc,         \* the arguments of the call, as passed
    arg_scale,
    arg_size,
    arg_log_transform,
    heap,            \* storage name -> the elements it holds
    attrs,           \* the attributes set on self so far
    loc,             \* self.loc            (a tensor: shape and storage)
    scale,           \* self.scale
    _log_transform,  \* self._log_transform
    _distributions,  \* self._distributions (a list of Normal objects)
    ret              \* what the last is_in_support call returned, NoReturn otherwise

vars == <<pc, error, arg_loc, arg_scale, arg_size, arg_log_transform, heap,
          attrs, loc, scale, _log_transform, _distributions, ret>>

self_vars == <<attrs, loc, scale, _log_transform, _distributions>>

args == <<arg_loc, arg_scale, arg_size, arg_log_transform>>

---------------------------------------------------------------------------
(* Bounds of the model.                                                    *)

\* the largest number of elements of a tensor argument
MaxNumel == 2

\* the largest size argument
MaxSize == 2

\* the numbers a loc entry is drawn from
LocValues == {0, 1}

\* the numbers a scale entry is drawn from: negative, zero and positive
ScaleValues == {-1, 0, 1, 2}

\* the numbers the caller writes into its tensors after the call
WrittenValues == {0, 1}

---------------------------------------------------------------------------
(* Values.                                                                 *)

RECURSIVE Numel(_)
\* torch.Size.numel(): the product of the dimensions (1 for a 0-dim tensor)
Numel(shape) ==
    IF shape = <<>> THEN 1 ELSE Head(shape) * Numel(Tail(shape))

\* the shapes of the tensor arguments: 0-dim, 1-D (the empty one too), 2-D
Shapes ==
    {<<>>}
        \cup {<<n>> : n \in 0..MaxNumel}
        \cup {p \in (1..MaxNumel) \X (1..MaxNumel) : p[1] * p[2] <= MaxNumel}

\* a plain Python number
ScalarArgs(V) ==
    {[kind |-> "scalar", val |-> v, shape |-> <<>>, data |-> <<>>] : v \in V}

\* a torch tensor, with its elements in row-major order
TensorArgs(V) ==
    UNION {{[kind |-> "tensor", val |-> 0, shape |-> s, data |-> d] :
                d \in [1..Numel(s) -> V]} : s \in Shapes}

\* anything that is neither a number nor a tensor (a list, None, a string)
OtherArg == [kind |-> "other", val |-> 0, shape |-> <<>>, data |-> <<>>]

LocArgs == ScalarArgs(LocValues) \cup TensorArgs(LocValues) \cup {OtherArg}

ScaleArgs == ScalarArgs(ScaleValues) \cup TensorArgs(ScaleValues) \cup {OtherArg}

\* size=None
NoSize == [supplied |-> FALSE, n |-> 0]

SizeArgs == {NoSize} \cup {[supplied |-> TRUE, n |-> k] : k \in -1..MaxSize}

\* the storages: of the caller's two tensors, of the two torch.full results,
\* and of the two registered buffers
Storages == {"arg_loc", "arg_scale", "full_loc", "full_scale", "buf_loc", "buf_scale"}

NoTensor == [shape |-> <<>>, sid |-> "none"]

NoError == "none"

\* no is_in_support call has returned since the last other operation
NoReturn == [called |-> FALSE, parameter |-> [tag |-> "real", v |-> 0], value |-> FALSE]

\* ValueError("loc and scale must be both either scalars or Tensors")
TypeMismatch == "loc and scale must be both either scalars or Tensors"

\* ValueError("loc and scale must have the same shape")
ShapeMismatch == "loc and scale must have the same shape"

\* ValueError("can only set size for scalar loc and scale")
SizeNotApplicable == "can only set size for scalar loc and scale"

\* the ValueError of Normal(..., validate_args=True) on a scale that is not positive
NonPositiveScale == "The parameter scale has invalid values"

\* the RuntimeError of torch.full on a negative dimension
NegativeDimension == "negative dimension"

\* the arguments is_in_support is called with
Parameters ==
    {[tag |-> "real", v |-> x] : x \in {0, 1000000}}
        \cup {[tag |-> t, v |-> 0] : t \in {"+inf", "-inf", "nan"}}

---------------------------------------------------------------------------
(* The pieces of __init__.                                                 *)

\* isinstance(x, Number)
IsNumber(x) == x.kind = "scalar"

\* torch.is_tensor(x)
is_tensor(x) == x.kind = "tensor"

\* a slip: the size argument is dropped
size_ignored(size) == 1

\* a slip: size tested against None, so that size=0 is taken as given
size_unless_None(size) ==
    IF ~size.supplied THEN 1 ELSE size.n

\* size or 1
size_or_1(size) ==
    IF ~size.supplied \/ size.n = 0 THEN 1 ELSE size.n

\* torch.full((n,), float(v)): the elements of the new tensor
full(n, v) == [i \in 1..n |-> v]

\* a slip: only scale is tested
only_scale_is_tensor(l, s) == is_tensor(s)

\* torch.is_tensor(loc) and torch.is_tensor(scale)
both_tensors(l, s) == is_tensor(l) /\ is_tensor(s)

\* a slip: the numbers of elements are compared, not the shapes
numels_differ(l, s) == Numel(l.shape) # Numel(s.shape)

\* loc.shape != scale.shape
shapes_differ(l, s) == l.shape # s.shape

\* a slip: size tested for truth, so that size=0 passes
size_is_truthy(size) == size.supplied /\ size.n # 0

\* size is not None
size_is_not_None(size) == size.supplied

\* a slip: the first dimension is kept instead of flattening
view_first_dimension(t) ==
    [shape |-> <<IF t.shape = <<>> THEN 1 ELSE Head(t.shape)>>, sid |-> t.sid]

\* t.view(-1): the same storage, seen as one dimension
view(t) == [shape |-> <<Numel(t.shape)>>, sid |-> t.sid]

\* a slip: the clone is left out, the buffer is the caller's tensor
clone_left_out(t, fresh) == t

\* t.clone(): the same shape over the storage `fresh`, which receives a copy
clone(t, fresh) == [shape |-> t.shape, sid |-> fresh]

\* the elements of tensor t in heap h
Elements(h, t) == h[t.sid]

\* len(t) of a 1-D tensor
TLen(t) == t.shape[1]

\* a slip: zero is let through
nonnegative(x) == x >= 0

\* the positive constraint on scale (arg_constraints, validate_args=True)
positive(x) == x > 0

\* a slip: the two parameters are swapped
Normal_swapped(lc, sc) == [loc |-> sc, scale |-> lc]

\* Normal(loc=lc, scale=sc): lc and sc are the i-th elements of self.loc and
\* self.scale, 0-dim views into the buffers' storages
Normal(lc, sc) == [loc |-> lc, scale |-> sc]

\* the i-th item of iterating over 1-D tensor t: a view
Item(t, i) == [sid |-> t.sid, off |-> i]

\* the number a view reads
Deref(h, r) == h[r.sid][r.off]

Min(a, b) == IF a < b THEN a ELSE b

\* [Normal(loc=lc, scale=sc, validate_args=True) for lc, sc in zip(l, s)]
distributions_of(l, s) ==
    [i \in 1..Min(TLen(l), TLen(s)) |-> Normal(Item(l, i), Item(s, i))]

\* whether every Normal of the list passes validate_args
all_valid(h, ds) ==
    \A i \in 1..Len(ds) : positive(Deref(h, ds[i].scale))

---------------------------------------------------------------------------
(* The state before the call: the caller holds its arguments.              *)

Init ==
    /\ pc = "pending"
    /\ error = NoError
    /\ arg_loc \in LocArgs
    /\ arg_scale \in ScaleArgs
    /\ arg_size \in SizeArgs
    /\ arg_log_transform \in BOOLEAN
    /\ heap = [s \in Storages |->
                 IF s = "arg_loc" THEN arg_loc.data
                 ELSE IF s = "arg_scale" THEN arg_scale.data
                 ELSE <<>>]
    /\ attrs = {}
    /\ loc = NoTensor
    /\ scale = NoTensor
    /\ _log_transform = FALSE
    /\ _distributions = <<>>
    /\ ret = NoReturn

\* an exception leaves __init__ before anything was set on self
Raise(e) ==
    /\ pc' = "raised"
    /\ error' = e
    /\ UNCHANGED <<heap, self_vars>>

\* lines 31-35: the buffers, the flag and the distributions, from the local
\* tensors l and s in heap h
Register(h, l, s) ==
    LET lb == clone(view(l), "buf_loc")
        sb == clone(view(s), "buf_scale")
        h2 == [h EXCEPT ![lb.sid] = h[l.sid]]
        h3 == [h2 EXCEPT ![sb.sid] = h2[s.sid]]
        ds == distributions_of(lb, sb)
    IN  /\ heap' = h3
        /\ loc' = lb
        /\ scale' = sb
        /\ _log_transform' = arg_log_transform
        /\ IF all_valid(h3, ds)
           THEN /\ _distributions' = ds
                /\ attrs' = {"loc", "scale", "_log_transform", "_distributions"}
                /\ pc' = "constructed"
                /\ error' = NoError
           ELSE /\ _distributions' = <<>>
                /\ attrs' = {"loc", "scale", "_log_transform"}
                /\ pc' = "raised"
                /\ error' = NonPositiveScale

\* NormalPrior.__init__(loc, scale, log_transform, size)
__init__ ==
    /\ pc = "pending"
    /\ IF IsNumber(arg_loc) /\ IsNumber(arg_scale)
       THEN LET n == size_or_1(arg_size)
            IN  IF n < 0
                THEN Raise(NegativeDimension)
                ELSE Register([heap EXCEPT !["full_loc"] = full(n, arg_loc.val),
                                           !["full_scale"] = full(n, arg_scale.val)],
                              [shape |-> <<n>>, sid |-> "full_loc"],
                              [shape |-> <<n>>, sid |-> "full_scale"])
       ELSE IF ~both_tensors(arg_loc, arg_scale)
       THEN Raise(TypeMismatch)
       ELSE IF shapes_differ(arg_loc, arg_scale)
       THEN Raise(ShapeMismatch)
       ELSE IF size_is_not_None(arg_size)
       THEN Raise(SizeNotApplicable)
       ELSE Register(heap,
                     [shape |-> arg_loc.shape, sid |-> "arg_loc"],
                     [shape |-> arg_scale.shape, sid |-> "arg_scale"])
    /\ ret' = NoReturn
    /\ UNCHANGED args

\* NormalPrior._initialize_distributions(), called again on the instance
_initialize_distributions ==
    /\ pc = "constructed"
    /\ LET ds == distributions_of(loc, scale)
       IN  IF all_valid(heap, ds)
           THEN /\ _distributions' = ds
                /\ UNCHANGED <<pc, error>>
           ELSE /\ pc' = "raised"
                /\ error' = NonPositiveScale
                /\ UNCHANGED _distributions
    /\ ret' = NoReturn
    /\ UNCHANGED <<args, heap, attrs, loc, scale, _log_transform>>

\* a slip: only finite parameters are in the support
support_if_finite(parameter) == parameter.tag = "real"

\* the value NormalPrior.is_in_support(parameter) returns
support(parameter) == TRUE

\* NormalPrior.is_in_support(parameter)
is_in_support ==
    /\ pc = "constructed"
    /\ \E parameter \in Parameters :
          ret' = [called |-> TRUE, parameter |-> parameter,
                  value |-> support(parameter)]
    /\ UNCHANGED <<pc, error, args, heap, self_vars>>

\* the caller writes v into element i of a tensor it passed in: t[i] = v
CallerMutate ==
    /\ pc = "constructed"
    /\ \/ /\ is_tensor(arg_loc)
          /\ \E i \in 1..Len(heap["arg_loc"]), v \in WrittenValues :
                heap' = [heap EXCEPT !["arg_loc"][i] = v]
       \/ /\ is_tensor(arg_scale)
          /\ \E i \in 1..Len(heap["arg_scale"]), v \in WrittenValues :
                heap' = [heap EXCEPT !["arg_scale"][i] = v]
    /\ ret' = NoReturn
    /\ UNCHANGED <<pc, error, args, self_vars>>

Next ==
    \/ __init__
    \/ _initialize_distributions
    \/ is_in_support
    \/ CallerMutate

Spec == Init /\ [][Next]_vars

---------------------------------------------------------------------------
(* What is stored, read through the heap.                                  *)

\* the call has returned or raised
Returned == pc # "pending"

\* both arguments are plain numbers
ScalarCall == arg_loc.kind = "scalar" /\ arg_scale.kind = "scalar"

\* both arguments are tensors
SequenceCall == arg_loc.kind = "tensor" /\ arg_scale.kind = "tensor"

\* the elements of self.loc and of self.scale
StoredLoc == heap[loc.sid]

StoredScale == heap[scale.sid]

\* the (loc, scale) each distribution reads
DistParams ==
    [i \in 1..Len(_distributions) |->
        <<heap[_distributions[i].loc.sid][_distributions[i].loc.off],
          heap[_distributions[i].scale.sid][_distributions[i].scale.off]>>]

\* a prior of n elements is stored: buffers of length n, n distributions
StoredLength(n) ==
    /\ loc.shape = <<n>>
    /\ scale.shape = <<n>>
    /\ Len(StoredLoc) = n
    /\ Len(StoredScale) = n
    /\ Len(_distributions) = n

\* nothing was set on self
NothingStored == attrs = {} /\ loc = NoTensor /\ scale = NoTensor

---------------------------------------------------------------------------
(* The claims.                                                             *)

\* C1: a call with two numbers m and s, s > 0, and a positive size n (or no
\* size, which counts as n = 1) succeeds; loc and scale have length n, every
\* loc entry is m and every scale entry is s, and there are n distributions.
C1_ScalarBroadcast ==
    (Returned /\ ScalarCall /\ arg_scale.val > 0
        /\ (arg_size.supplied => arg_size.n >= 1))
    => LET n == IF arg_size.supplied THEN arg_size.n ELSE 1
       IN  /\ pc = "constructed"
           /\ error = NoError
           /\ StoredLength(n)
           /\ \A i \in 1..n :
                 /\ StoredLoc[i] = arg_loc.val
                 /\ StoredScale[i] = arg_scale.val
                 /\ DistParams[i] = <<arg_loc.val, arg_scale.val>>

C1_Witness ==
    /\ pc = "constructed"
    /\ ScalarCall
    /\ arg_size.supplied
    /\ arg_size.n = MaxSize
    /\ Len(_distributions) = MaxSize

C3_MixedKindsRejected ==
    (Returned
        /\ \/ arg_loc.kind = "scalar" /\ arg_scale.kind = "tensor"
           \/ arg_loc.kind = "tensor" /\ arg_scale.kind = "scalar")
    => /\ pc = "raised"
       /\ error = TypeMismatch
       /\ NothingStored

C3_Witness ==
    /\ pc = "raised"
    /\ error = TypeMismatch
    /\ arg_loc.kind = "scalar"
    /\ arg_scale.kind = "tensor"
    /\ arg_size.supplied
    /\ \E i \in 1..Len(arg_scale.data) : arg_scale.data[i] <= 0

\* C4: a call with two tensors of different shapes raises the shape-mismatch
\* error, with or without size, also when the two hold equally many
\* elements; never the size error or the scale error.
C4_ShapeMismatchFirst ==
    (Returned /\ SequenceCall /\ arg_loc.shape # arg_scale.shape)
    => /\ pc = "raised"
       /\ error = ShapeMismatch
       /\ NothingStored

C4_Witness ==
    /\ pc = "raised"
    /\ error = ShapeMismatch
    /\ SequenceCall
    /\ Len(arg_loc.data) = Len(arg_scale.data)
    /\ arg_size.supplied
    /\ \E i \in 1..Len(arg_scale.data) : arg_scale.data[i] <= 0

\* C5: a call with two tensors of equal shape and any size given (0 and the
\* tensors' own length too) raises the size-not-applicable error.
C5_SizeRejectedOnSequences ==
    (Returned /\ SequenceCall /\ arg_loc.shape = arg_scale.shape
        /\ arg_size.supplied)
    => /\ pc = "raised"
       /\ error = SizeNotApplicable
       /\ NothingStored

C5_Witness ==
    /\ pc = "raised"
    /\ error = SizeNotApplicable
    /\ SequenceCall
    /\ arg_loc.shape = <<arg_size.n>>
    /\ arg_size.n > 0

C7_IsInSupportConstant ==
    [][(ret'.called /\ ret' # ret)
        => /\ pc = "constructed"
           /\ ret'.value = TRUE
           /\ UNCHANGED <<pc, error, self_vars>>
           /\ StoredLoc' = StoredLoc
           /\ StoredScale' = StoredScale
           /\ DistParams' = DistParams]_vars

C7_Witness ==
    /\ pc = "constructed"
    /\ ret.called
    /\ ret.parameter.tag = "nan"
    /\ ret.value = TRUE
    /\ Len(_distributions) > 0

\* C8: the buffers of a prior constructed from tensors are copies: they
\* share no storage with the caller's tensors, and a write of the caller
\* into its own loc or scale tensor changes neither the stored loc and
\* scale nor what the distributions read.
C8_CopySemantics ==
    [][(pc = "constructed" /\ SequenceCall)
        => /\ loc.sid \notin {"arg_loc", "arg_scale"}
           /\ scale.sid \notin {"arg_loc", "arg_scale"}
           /\ StoredLoc' = StoredLoc
           /\ StoredScale' = StoredScale
           /\ DistParams' = DistParams]_vars

C8_Witness ==
    /\ pc = "constructed"
    /\ SequenceCall
    /\ heap["arg_loc"] # arg_loc.data
    /\ heap["arg_scale"] # arg_scale.data
    /\ StoredLoc = arg_loc.data
    /\ StoredScale = arg_scale.data

\* C9: in every state of a constructed prior loc, scale and the
\* distributions have one length and distribution i reads (loc[i],
\* scale[i]); and a step from such a state (_initialize_distributions
\* again, is_in_support) keeps the prior constructed and its loc, scale,
\* log_transform and distributions as they were.
C9_DerivedListInvariant ==
    /\ [](pc = "constructed"
            => /\ attrs = {"loc", "scale", "_log_transform", "_distributions"}
               /\ Len(loc.shape) = 1
               /\ StoredLength(loc.shape[1])
               /\ \A i \in 1..Len(_distributions) :
                     DistParams[i] = <<StoredLoc[i], StoredScale[i]>>)
    /\ [][pc = "constructed"
            => /\ pc' = "constructed"
               /\ UNCHANGED <<error, self_vars>>
               /\ DistParams' = DistParams]_vars

C9_Witness ==
    /\ pc = "constructed"
    /\ Len(_distributions) = 2
    /\ StoredLoc[1] # StoredLoc[2]
    /\ StoredScale[1] # StoredScale[2]
    /\ StoredLoc[1] # StoredScale[1]
    /\ heap["arg_scale"] # arg_scale.data

\* C10: with two numbers, size=0 is taken as no size: the call succeeds (for
\* s > 0) with loc, scale and distributions of length 1; a prior constructed
\* from two numbers is never empty; with two tensors of equal shape size=0
\* counts as given and is rejected.
C10_SizeZero ==
    /\ (Returned /\ ScalarCall /\ arg_scale.val > 0
            /\ arg_size.supplied /\ arg_size.n = 0)
       => /\ pc = "constructed"
          /\ StoredLength(1)
          /\ DistParams = <<(<<arg_loc.val, arg_scale.val>>)>>
    /\ (pc = "constructed" /\ ScalarCall)
       => /\ Len(StoredLoc) >= 1
          /\ Len(_distributions) >= 1
    /\ (Returned /\ SequenceCall /\ arg_loc.shape = arg_scale.shape
            /\ arg_size.supplied /\ arg_size.n = 0)
       => /\ pc = "raised"
          /\ error = SizeNotApplicable

C10_Witness ==
    /\ pc = "constructed"
    /\ ScalarCall
    /\ arg_size.supplied
    /\ arg_size.n = 0
    /\ Len(_distributions) = 1

====
